---- MODULE Spec2Model ----
(***************************************************************************)
(* Binomial-lattice option pricers of src/cookbook/esop.py:                *)
(* CoxRossRubinstein, BinomialESOP and EnhancedFASB; and the prepayment    *)
(* generators of src/banking_book/prepayments/prepayment.py.               *)
(*                                                                         *)
(* Numbers are exact rationals <<num, den>> extended with the IEEE values  *)
(* numpy produces instead of raising: <<0,0>> is NaN, <<1,0>> is +inf and  *)
(* <<-1,0>> is -inf.  Logarithmic quantities (sigma*sqrt(dt), r*dt, ...)   *)
(* are measured in units of ln 2, so that np.exp of k units is 2^k and     *)
(* every exponential the code takes is an exact rational.                  *)
(***************************************************************************)
EXTENDS Integers, Sequences, FiniteSets, TLC

(***************************************************************************)
(* Bounds of the input space.                                              *)
(***************************************************************************)
MaxSteps == 3
MaxT == 4

\* longest prepayment registry, tallest frame, most installments
MaxRegistry == 3

MaxRows == 2

MaxInstallments == 3

(***************************************************************************)
(* Extended rational arithmetic (numpy float64 semantics, exact).          *)
(***************************************************************************)
Abs(n) == IF n < 0 THEN -n ELSE n

Sign(n) == IF n < 0 THEN -1 ELSE IF n > 0 THEN 1 ELSE 0

RECURSIVE Gcd(_, _)
Gcd(a, b) == IF b = 0 THEN a ELSE Gcd(b, a % b)

Rat(n, dn) ==
  IF dn = 0 THEN <<Sign(n), 0>>
  ELSE LET g == Gcd(Abs(n), Abs(dn))
       IN  IF dn > 0 THEN <<n \div g, dn \div g>>
                     ELSE <<(-n) \div g, (-dn) \div g>>

R(n) == <<n, 1>>

Zero == <<0, 1>>

One == <<1, 1>>

NaN == <<0, 0>>

PInf == <<1, 0>>

NInf == <<-1, 0>>

IsNaN(x) == x = NaN

IsFinite(x) == x[2] # 0

Neg(a) == <<-a[1], a[2]>>

Mul(a, b) ==
  IF a[2] = 0 \/ b[2] = 0 THEN <<Sign(a[1]) * Sign(b[1]), 0>>
  ELSE LET g1 == Gcd(Abs(a[1]), b[2])
           g2 == Gcd(Abs(b[1]), a[2])
       IN  Rat((a[1] \div g1) * (b[1] \div g2), (a[2] \div g2) * (b[2] \div g1))

Add(a, b) ==
  IF IsNaN(a) \/ IsNaN(b) THEN NaN
  ELSE IF a[2] = 0 /\ b[2] = 0 THEN (IF a = b THEN a ELSE NaN)
  ELSE IF a[2] = 0 THEN a
  ELSE IF b[2] = 0 THEN b
  ELSE LET g == Gcd(a[2], b[2])
       IN  Rat(a[1] * (b[2] \div g) + b[1] * (a[2] \div g), (a[2] \div g) * b[2])

Sub(a, b) == Add(a, Neg(b))

\* numpy true division: x/0 is +-inf, 0/0 is NaN, no exception
Inv(a) ==
  IF IsNaN(a) THEN NaN
  ELSE IF a[1] = 0 THEN PInf
  ELSE IF a[2] = 0 THEN Zero
  ELSE IF a[1] > 0 THEN <<a[2], a[1]>> ELSE <<-a[2], -a[1]>>

Div(a, b) == Mul(a, Inv(b))

Lt(a, b) ==
  IF IsNaN(a) \/ IsNaN(b) THEN FALSE
  ELSE IF a[2] = 0 /\ b[2] = 0 THEN a[1] < b[1]
  ELSE a[1] * b[2] < b[1] * a[2]

Le(a, b) ==
  IF IsNaN(a) \/ IsNaN(b) THEN FALSE
  ELSE IF a[2] = 0 /\ b[2] = 0 THEN a[1] <= b[1]
  ELSE a[1] * b[2] <= b[1] * a[2]

\* Python builtin max(a, b): b only when b > a; the variant is min(a, b)
PyMin(a, b) == IF Lt(b, a) THEN b ELSE a

PyMax(a, b) == IF Lt(a, b) THEN b ELSE a

\* np.maximum(a, b): propagates NaN
NpMaximum(a, b) ==
  IF IsNaN(a) \/ IsNaN(b) THEN NaN ELSE IF Lt(a, b) THEN b ELSE a

RECURSIVE IntPow(_, _)
IntPow(b, k) == IF k = 0 THEN 1 ELSE b * IntPow(b, k - 1)

\* np.exp of x units of ln 2 (x an integer-valued rational)
Exp(x) == IF x[1] >= 0 THEN <<IntPow(2, x[1]), 1>> ELSE <<1, IntPow(2, -x[1])>>

IsSquare(x) == IsFinite(x) /\ x[2] = 1 /\ \E n \in 0..x[1] : n * n = x[1]

\* np.sqrt on the perfect squares the input space is restricted to
Sqrt(x) == R(CHOOSE n \in 0..x[1] : n * n = x[1])

(***************************************************************************)
(* Matrices: (n x n) arrays as sequences of rows, indexed from 0 by At.    *)
(***************************************************************************)
Unset == <<>>

At(mat, i, j) == mat[i + 1][j + 1]

Mat(n, f(_, _)) == [i \in 1..n |-> [j \in 1..n |-> f(i - 1, j - 1)]]

\* np.triu; the variant returns the array as the loop left it
Triu_identity(mat) == mat

Triu(mat) == Mat(Len(mat), LAMBDA i, j : IF i <= j THEN At(mat, i, j) ELSE Zero)

\* np.zeros_like
ZerosLike(mat) == Mat(Len(mat), LAMBDA i, j : Zero)

(***************************************************************************)
(* Input space.  All inputs are states the constructor and the setters     *)
(* accept; no input is validated by the code.                              *)
(***************************************************************************)
Classes == {"CoxRossRubinstein", "BinomialESOP", "EnhancedFASB"}

OptionTypes == {"call", "put"}

ExerciseTypes == {"european", "american"}

S0Values == {R(2)}

KValues == {R(3)}

SigmaValues == {R(0), R(1)}

RateValues == {R(1)}

YieldValues == {R(0), R(1)}

VestingValues(t) == {R(1), R(t + 1)}

MultiplierValues == {R(0), R(1), R(8)}

TurnoverValues == {Zero, Rat(1, 2)}

MovementValues == {<<R(4), Rat(1, 4)>>}

LatticeMovementValues == MovementValues \cup {<<R(2), R(2)>>, <<R(3), Rat(1, 2)>>}

ZeroProbs(n) == Mat(n, LAMBDA i, j : Zero)

MixedProbs(n) == Mat(n, LAMBDA i, j : IF (i + j) % 2 = 0 THEN Rat(1, 2) ELSE One)

ProbValues(m) == {ZeroProbs(m + 1), MixedProbs(m)}

\* T and steps are drawn so that dt and sqrt(dt) are integers
InputDomain(t, steps) == steps = 0 \/ IsSquare(Rat(t, steps))

(***************************************************************************)
(* State: the fields of one pricer object, the outcome of the latest call, *)
(* the arguments and result of the latest simulate_price_tree_iter, and    *)
(* the position of a calculate_option_values call followed step by step:   *)
(* pc, the positions col_idx and row_idx in range_cols and range_rows, the *)
(* local matrix result (partial) and the number of assignments each of its *)
(* entries has received (writes).                                          *)
(***************************************************************************)
VARIABLES cls, S0, K, sigma, r, q, T, M, dt, option_type, exercise_type,
          u, d, p, vesting_period, km, tr, ex_probs,
          price_tree, payoffs, values, pv, helper, err, iter_args, iter_ret,
          pc, col_idx, row_idx, partial, writes,
          prepayment_registry, PREPAYMENT_COUNTER, load_err,
          random_registry, random_args, random_err

config == <<cls, S0, K, sigma, r, q, T, M, dt, option_type, exercise_type,
            vesting_period, km>>

movements == <<u, d, p>>

outputs == <<price_tree, payoffs, values, pv, helper>>

iter == <<iter_args, iter_ret>>

loop == <<pc, col_idx, row_idx, partial, writes>>

pricer == <<config, movements, tr, ex_probs, outputs, err, iter, loop>>

\* DeterministicPrepaymentGenerator: its two fields and the outcome of the
\* latest call
deterministic == <<prepayment_registry, PREPAYMENT_COUNTER, load_err>>

\* RandomPrepaymentGenerator: its registry, and the arguments and outcome of
\* the latest simple_random_prepayments
random == <<random_registry, random_args, random_err>>

prepay == <<deterministic, random>>

vars == <<pricer, prepay>>

constructed == cls # ""

(***************************************************************************)
(* CoxRossRubinstein                                                       *)
(***************************************************************************)
\* p as computed on lines 35 and 40
probability(rr, qq, dtt, uu, dd) ==
  Div(Sub(Exp(Mul(Sub(rr, qq), dtt)), dd), Sub(uu, dd))

up_movement(sg, dtt) == Exp(Mul(sg, Sqrt(dtt)))

down_movement(uu) == Div(One, uu)

\* down = up.transpose() without the factor 2
simulate_price_tree_single_down ==
  LET dt_ == Div(T, R(M))
      S(i, j) == Mul(S0, Exp(Mul(Mul(sigma, Sqrt(dt_)), R(j - i))))
  IN  Triu(Mat(M + 1, S))

simulate_price_tree ==
  LET dt_ == Div(T, R(M))
      S(i, j) == Mul(S0, Exp(Mul(Mul(sigma, Sqrt(dt_)), R(j - 2 * i))))
  IN  Triu(Mat(M + 1, S))

\* np.maximum applied without np.triu
calculate_payoffs_no_triu(tree) ==
  LET n == Len(tree)
      excess(i, j) == IF option_type = "call"
                      THEN Sub(At(tree, i, j), K)
                      ELSE Sub(K, At(tree, i, j))
  IN  Mat(n, LAMBDA i, j : NpMaximum(excess(i, j), Zero))

calculate_payoffs(tree) ==
  LET n == Len(tree)
      excess(i, j) == IF option_type = "call"
                      THEN Sub(At(tree, i, j), K)
                      ELSE Sub(K, At(tree, i, j))
      upper == Triu(Mat(n, excess))
  IN  Mat(n, LAMBDA i, j : NpMaximum(At(upper, i, j), Zero))

grab_up_transposed(matrix, i, j) == At(matrix, j + 1, i)

grab_up(matrix, i, j) == At(matrix, i, j + 1)

\* matrix[i + 1, j]: the neighbour below in the same column
grab_down_same_column(matrix, i, j) == At(matrix, i + 1, j)

grab_down(matrix, i, j) == At(matrix, i + 1, j + 1)

\* result[-1, :] = payoffs[-1, :]: the last row instead of the last column
terminal_row(pay) ==
  Mat(Len(pay), LAMBDA i, j : IF i = Len(pay) - 1 THEN At(pay, i, j) ELSE Zero)

\* result[:, -1] = payoffs[:, -1] on a zeros_like(payoffs)
terminal_column(pay) ==
  Mat(Len(pay), LAMBDA i, j : IF j = Len(pay) - 1 THEN At(pay, i, j) ELSE Zero)

\* exp(-r*dt) * ((1-p)*up + p*down): the weights exchanged
discounted_weighted_payoff_swapped(result, i, j) ==
  Mul(Exp(Neg(Mul(r, dt))),
      Add(Mul(Sub(One, p), grab_up(result, i, j)),
          Mul(p, grab_down(result, i, j))))

\* exp(-r*dt) * (p*up + (1-p)*down)
discounted_weighted_payoff(result, i, j) ==
  Mul(Exp(Neg(Mul(r, dt))),
      Add(Mul(p, grab_up(result, i, j)),
          Mul(Sub(One, p), grab_down(result, i, j))))

\* one pass of the inner loop: rows 0..len-2 of column j receive column[i]
write_column(result, j, column) ==
  Mat(Len(result), LAMBDA i, jj :
        IF jj = j /\ i <= Len(result) - 2 THEN column[i + 1] ELSE At(result, i, jj))

crr_node(result, pay, i, j) ==
  IF exercise_type = "american"
  THEN PyMax(At(pay, i, j), discounted_weighted_payoff(result, i, j))
  ELSE discounted_weighted_payoff(result, i, j)

RECURSIVE crr_induction(_, _, _)
crr_induction(result, pay, j) ==
  IF j < 0 THEN result
  ELSE crr_induction(
         write_column(result, j, [i \in 1..(Len(result) - 1) |-> crr_node(result, pay, i - 1, j)]),
         pay, j - 1)

crr_calculate_option_values(pay) ==
  Triu(crr_induction(terminal_column(pay), pay, Len(pay) - 2))

(***************************************************************************)
(* BinomialESOP and EnhancedFASB                                           *)
(***************************************************************************)
\* step_matrix[i, j] = j * dt
step_matrix(i, j) == Mul(R(j), dt)

\* vesting_mask = step_matrix < vesting_period: the vesting date itself left out
vesting_mask_strict(i, j) == Lt(step_matrix(i, j), vesting_period)

\* vesting_mask = step_matrix <= vesting_period
vesting_mask(i, j) == Le(step_matrix(i, j), vesting_period)

\* payoffs[self.vesting_mask] = 0, in place
mask_payoffs(pay) ==
  Mat(Len(pay), LAMBDA i, j : IF vesting_mask(i, j) THEN Zero ELSE At(pay, i, j))

\* option_value of lines 319-321, before the exercise-style test
esop_option_value(result, pay, i, j) ==
  LET total_prob == Add(At(ex_probs, i, j),
                        Mul(Sub(One, At(ex_probs, i, j)), tr))
  IN  Add(Mul(total_prob, At(pay, i, j)),
          Mul(Sub(One, total_prob), discounted_weighted_payoff(result, i, j)))

\* total_prob = ex_probs[i, j] + turnover_rate: the two hazards simply added
esop_node_additive(result, pay, i, j) ==
  LET total_prob == Add(At(ex_probs, i, j), tr)
      option_value == Add(Mul(total_prob, At(pay, i, j)),
                          Mul(Sub(One, total_prob),
                              discounted_weighted_payoff(result, i, j)))
  IN  IF exercise_type = "american"
      THEN PyMax(At(pay, i, j), option_value)
      ELSE option_value

esop_node(result, pay, i, j) ==
  IF exercise_type = "american"
  THEN PyMax(At(pay, i, j), esop_option_value(result, pay, i, j))
  ELSE esop_option_value(result, pay, i, j)

RECURSIVE esop_induction(_, _, _)
esop_induction(result, pay, j) ==
  IF j < 0 THEN result
  ELSE esop_induction(
         write_column(result, j, [i \in 1..(Len(result) - 1) |-> esop_node(result, pay, i - 1, j)]),
         pay, j - 1)

\* return result: the nodes below the diagonal left as the loops wrote them
esop_calculate_option_values_no_triu(pay) ==
  esop_induction(terminal_column(pay), pay, Len(pay) - 2)

\* pay is the payoff matrix after the in-place masking of line 295
esop_calculate_option_values(pay) ==
  Triu(esop_induction(terminal_column(pay), pay, Len(pay) - 2))

\* the first read of line 319 that raises, if any
esop_error ==
  IF ex_probs = Unset THEN "AttributeError"
  ELSE IF Len(ex_probs) < M THEN "IndexError"
  ELSE IF tr = Unset THEN "AttributeError"
  ELSE "none"

\* the multiplier applied to the price instead of the strike
forced_exercise_scaled_price(tree, i, j) ==
  /\ Le(K, Mul(km, At(tree, i, j)))
  /\ Lt(vesting_period, step_matrix(i, j))

\* the forced-exercise test of lines 482-485
forced_exercise(tree, i, j) ==
  /\ Le(Mul(km, K), At(tree, i, j))
  /\ Lt(vesting_period, step_matrix(i, j))

\* option_value of lines 482-496, before the exercise-style test
fasb_option_value(result, pay, tree, i, j) ==
  IF forced_exercise(tree, i, j)
  THEN At(pay, i, j)
  ELSE Add(Mul(Mul(tr, dt), At(pay, i, j)),
           Mul(Sub(One, Mul(tr, dt)), discounted_weighted_payoff(result, i, j)))

\* the turnover weight taken per period instead of per step: tr, not tr * dt
fasb_node_per_period(result, pay, tree, i, j) ==
  LET option_value ==
        IF forced_exercise(tree, i, j)
        THEN At(pay, i, j)
        ELSE Add(Mul(tr, At(pay, i, j)),
                 Mul(Sub(One, tr),
                     discounted_weighted_payoff(result, i, j)))
  IN  IF exercise_type = "american"
      THEN PyMax(At(pay, i, j), option_value)
      ELSE option_value

fasb_node(result, pay, tree, i, j) ==
  IF exercise_type = "american"
  THEN PyMax(At(pay, i, j), fasb_option_value(result, pay, tree, i, j))
  ELSE fasb_option_value(result, pay, tree, i, j)

RECURSIVE fasb_induction(_, _, _, _)
fasb_induction(result, pay, tree, j) ==
  IF j < 0 THEN result
  ELSE fasb_induction(
         write_column(result, j,
                      [i \in 1..(Len(result) - 1) |-> fasb_node(result, pay, tree, i - 1, j)]),
         pay, tree, j - 1)

fasb_calculate_option_values(pay, tree) ==
  Triu(fasb_induction(terminal_column(pay), pay, tree, Len(pay) - 2))

\* (i, j) is visited by the loops of lines 464-465
visited(n, i, j) == i <= n - 2 /\ j <= n - 2

\* (i1, j1) is visited before (i2, j2): columns descending, rows ascending
before(i1, j1, i2, j2) == j1 > j2 \/ (j1 = j2 /\ i1 < i2)

\* nodes at which line 490 reads the missing attribute tr
fasb_raises(tree, i, j) ==
  visited(Len(tree), i, j) /\ tr = Unset /\ ~forced_exercise(tree, i, j)

fasb_error(tree) ==
  IF \E i, j \in 0..(Len(tree) - 1) : fasb_raises(tree, i, j)
  THEN "AttributeError" ELSE "none"

\* self.helper: flags written until the loop ends or raises
fasb_helper(tree) ==
  Mat(Len(tree), LAMBDA i, j :
        IF /\ visited(Len(tree), i, j)
           /\ forced_exercise(tree, i, j)
           /\ \A i2, j2 \in 0..(Len(tree) - 1) :
                 fasb_raises(tree, i2, j2) => before(i, j, i2, j2)
        THEN One ELSE Zero)

(***************************************************************************)
(* simulate_price_tree_iter                                                *)
(***************************************************************************)
SetAt(mat, i, j, v) == [mat EXCEPT ![i + 1][j + 1] = v]

\* the inner loop of lines 76-78 for column t, from row i on
RECURSIVE iter_rows(_, _, _, _, _)
iter_rows(S, t, i, uu, dd) ==
  IF i >= t THEN S
  ELSE iter_rows(SetAt(SetAt(S, i, t, Mul(At(S, i, t - 1), uu)),
                       i + 1, t, Mul(At(S, i, t - 1), dd)),
                 t, i + 1, uu, dd)

RECURSIVE iter_columns(_, _, _, _)
iter_columns(S, t, uu, dd) ==
  IF t > M THEN S ELSE iter_columns(iter_rows(S, t, 0, uu, dd), t + 1, uu, dd)

\* the multiplier u after lines 64-68 (the second branch also assigns u)
iter_up(ua, da) ==
  LET dt_ == Div(T, R(M))
      u1  == IF ua = Unset THEN Exp(Mul(sigma, Sqrt(dt_))) ELSE ua
  IN  IF da = Unset THEN Exp(Mul(Neg(sigma), Sqrt(dt_))) ELSE u1

\* d stays None when it is not passed; the first S * d then raises
iter_error(ua, da) == IF da = Unset THEN "TypeError" ELSE "none"

simulate_price_tree_iter(ua, da) ==
  iter_columns(SetAt(Mat(M + 1, LAMBDA i, j : Zero), 0, 0, S0),
               1, iter_up(ua, da), da)

(***************************************************************************)
(* Operations.  A behaviour follows one pricer object: it is constructed   *)
(* once (a failed construction may be retried), configured through the     *)
(* setters and _overwrite_movements in any order, and priced; once a       *)
(* present value has been stored the configuration is no longer changed.   *)
(***************************************************************************)
priced == pv # Unset

Init ==
  /\ cls = "" /\ S0 = Unset /\ K = Unset /\ sigma = Unset /\ r = Unset
  /\ q = Unset /\ T = Unset /\ M = 0 /\ dt = Unset
  /\ option_type = "" /\ exercise_type = ""
  /\ u = Unset /\ d = Unset /\ p = Unset
  /\ vesting_period = Unset /\ km = Unset /\ tr = Unset /\ ex_probs = Unset
  /\ price_tree = Unset /\ payoffs = Unset /\ values = Unset /\ pv = Unset
  /\ helper = Unset /\ err = "none" /\ iter_args = Unset /\ iter_ret = Unset
  /\ pc = "idle" /\ col_idx = 0 /\ row_idx = 0
  /\ partial = Unset /\ writes = Unset
  /\ prepayment_registry = <<>> /\ PREPAYMENT_COUNTER = 0 /\ load_err = "none"
  /\ random_registry = <<>> /\ random_args = Unset /\ random_err = "none"

\* __init__ of the three classes; steps = 0 raises on line 17
Construct(classes) ==
  \E c \in classes, s0 \in S0Values, k \in KValues, sg \in SigmaValues,
     rr \in RateValues, qq \in YieldValues, t \in 1..MaxT, steps \in 0..MaxSteps,
     ot \in OptionTypes, et \in ExerciseTypes :
    \E vp \in IF c = "CoxRossRubinstein" THEN {Unset} ELSE VestingValues(t),
       em \in IF c = "EnhancedFASB" THEN MultiplierValues ELSE {Unset} :
      /\ ~constructed
      /\ InputDomain(t, steps)
      /\ UNCHANGED <<loop, prepay>>
      /\ tr' = Unset /\ ex_probs' = Unset
      /\ price_tree' = Unset /\ payoffs' = Unset /\ values' = Unset
      /\ pv' = Unset /\ helper' = Unset
      /\ iter_args' = Unset /\ iter_ret' = Unset
      /\ IF steps = 0
         THEN /\ err' = "ZeroDivisionError"
              /\ cls' = "" /\ S0' = Unset /\ K' = Unset /\ sigma' = Unset
              /\ r' = Unset /\ q' = Unset /\ T' = Unset /\ M' = 0 /\ dt' = Unset
              /\ option_type' = "" /\ exercise_type' = ""
              /\ u' = Unset /\ d' = Unset /\ p' = Unset
              /\ vesting_period' = Unset /\ km' = Unset
         ELSE /\ err' = "none"
              /\ cls' = c /\ S0' = s0 /\ K' = k /\ sigma' = sg
              /\ r' = rr /\ q' = qq /\ T' = R(t) /\ M' = steps
              /\ dt' = Rat(t, steps)
              /\ option_type' = ot /\ exercise_type' = et
              /\ u' = up_movement(sg, dt')
              /\ d' = down_movement(u')
              /\ p' = probability(rr, qq, dt', u', d')
              /\ vesting_period' = vp /\ km' = em

OverwriteMovements(uo, do) ==
  /\ constructed /\ ~priced
  /\ u' = uo
  /\ d' = do
  /\ p' = probability(r, q, dt, u', d')
  /\ err' = "none"
  /\ UNCHANGED <<config, tr, ex_probs, outputs, iter, loop, prepay>>

SetTurnoverRate(x) ==
  /\ cls \in {"BinomialESOP", "EnhancedFASB"} /\ ~priced
  /\ tr' = x
  /\ err' = "none"
  /\ UNCHANGED <<config, movements, ex_probs, outputs, iter, loop, prepay>>

SetExerciseProbabilities(probs) ==
  /\ cls = "BinomialESOP" /\ ~priced
  /\ ex_probs' = probs
  /\ err' = "none"
  /\ UNCHANGED <<config, movements, tr, outputs, iter, loop, prepay>>

PresentValueCRR ==
  /\ cls = "CoxRossRubinstein"
  /\ price_tree' = simulate_price_tree
  /\ payoffs' = calculate_payoffs(price_tree')
  /\ values' = crr_calculate_option_values(payoffs')
  /\ pv' = At(values', 0, 0)
  /\ err' = "none"
  /\ UNCHANGED <<config, movements, tr, ex_probs, helper, iter, loop, prepay>>

\* a failed valuation swallowed and reported as a zero present value
PresentValueESOP_swallow ==
  /\ cls = "BinomialESOP"
  /\ price_tree' = simulate_price_tree
  /\ payoffs' = mask_payoffs(calculate_payoffs(price_tree'))
  /\ err' = "none"
  /\ IF esop_error = "none"
     THEN /\ values' = esop_calculate_option_values(payoffs')
          /\ pv' = At(values', 0, 0)
     ELSE /\ values' = ZerosLike(payoffs')
          /\ pv' = Zero
  /\ UNCHANGED <<config, movements, tr, ex_probs, helper, iter, loop, prepay>>

PresentValueESOP ==
  /\ cls = "BinomialESOP"
  /\ price_tree' = simulate_price_tree
  /\ payoffs' = mask_payoffs(calculate_payoffs(price_tree'))
  /\ err' = esop_error
  /\ IF esop_error = "none"
     THEN /\ values' = esop_calculate_option_values(payoffs')
          /\ pv' = At(values', 0, 0)
     ELSE UNCHANGED <<values, pv>>
  /\ UNCHANGED <<config, movements, tr, ex_probs, helper, iter, loop, prepay>>

PresentValueFASB ==
  /\ cls = "EnhancedFASB"
  /\ price_tree' = simulate_price_tree
  /\ payoffs' = mask_payoffs(calculate_payoffs(price_tree'))
  /\ helper' = fasb_helper(price_tree')
  /\ err' = fasb_error(price_tree')
  /\ IF err' = "none"
     THEN /\ values' = fasb_calculate_option_values(payoffs', price_tree')
          /\ pv' = At(values', 0, 0)
     ELSE UNCHANGED <<values, pv>>
  /\ UNCHANGED <<config, movements, tr, ex_probs, iter, loop, prepay>>

SimulatePriceTreeIter(ua, da) ==
  /\ constructed
  /\ iter_args' = <<ua, da>>
  /\ err' = iter_error(ua, da)
  /\ iter_ret' = IF iter_error(ua, da) = "none"
                 THEN simulate_price_tree_iter(ua, da) ELSE Unset
  /\ UNCHANGED <<config, movements, tr, ex_probs, outputs, loop, prepay>>

IterArgs ==
  LatticeMovementValues \cup {<<u, d>>, <<Unset, Unset>>, <<R(2), Unset>>,
                              <<Unset, Rat(1, 2)>>}

Next ==
  \/ Construct(Classes)
  \/ \E m \in MovementValues : OverwriteMovements(m[1], m[2])
  \/ \E x \in TurnoverValues : SetTurnoverRate(x)
  \/ \E probs \in ProbValues(M) : SetExerciseProbabilities(probs)
  \/ PresentValueCRR
  \/ PresentValueESOP
  \/ PresentValueFASB

Spec == Init /\ [][Next]_vars

\* the plain lattice alone, with both price-tree builders
NextCRR ==
  \/ Construct({"CoxRossRubinstein"})
  \/ \E m \in LatticeMovementValues : OverwriteMovements(m[1], m[2])
  \/ \E a \in IterArgs : SimulatePriceTreeIter(a[1], a[2])
  \/ PresentValueCRR

SpecCRR == Init /\ [][NextCRR]_vars

(***************************************************************************)
(* One present_value call followed assignment by assignment.  The call is  *)
(* followed on a pricer whose turnover rate and exercise probabilities     *)
(* have been supplied, so that the loops run to their end.                 *)
(***************************************************************************)
\* range(len(payoffs) - 1): the columns in ascending order
range_cols_ascending(n) == [k \in 1..(n - 1) |-> k - 1]

\* range_cols = reversed(range(len(payoffs) - 1))
range_cols(n) == [k \in 1..(n - 1) |-> n - 1 - k]

\* range_rows = range(len(payoffs) - 1)
range_rows(n) == [k \in 1..(n - 1) |-> k - 1]

\* the value assigned to result[i, j] by the class being priced
node_value(res, i, j) ==
  IF cls = "CoxRossRubinstein" THEN crr_node(res, payoffs, i, j)
  ELSE IF cls = "BinomialESOP" THEN esop_node(res, payoffs, i, j)
  ELSE fasb_node(res, payoffs, price_tree, i, j)

\* every attribute the loops read has been supplied
inputs_supplied ==
  \/ cls = "CoxRossRubinstein"
  \/ cls = "BinomialESOP" /\ esop_error = "none"
  \/ cls = "EnhancedFASB" /\ tr # Unset

\* present_value up to its call of calculate_option_values, then the lines
\* before the loops: result = zeros_like(payoffs), result[:, -1] =
\* payoffs[:, -1], the two ranges (and helper = zeros_like for EnhancedFASB)
EnterValuation ==
  /\ pc = "idle" /\ constructed /\ inputs_supplied
  /\ price_tree' = simulate_price_tree
  /\ payoffs' = IF cls = "CoxRossRubinstein"
                THEN calculate_payoffs(price_tree')
                ELSE mask_payoffs(calculate_payoffs(price_tree'))
  /\ partial' = terminal_column(payoffs')
  /\ writes' = [i \in 1..(M + 1) |-> [j \in 1..(M + 1) |-> IF j = M + 1 THEN 1 ELSE 0]]
  /\ helper' = IF cls = "EnhancedFASB" THEN ZerosLike(price_tree') ELSE helper
  /\ col_idx' = 1 /\ row_idx' = 1
  /\ pc' = "loop"
  /\ UNCHANGED <<config, movements, tr, ex_probs, values, pv, err, iter,
                 prepay>>

\* the two for statements fetching the next (j, i), or falling through
next_iteration ==
  /\ pc = "loop"
  /\ IF row_idx < Len(range_rows(M + 1))
     THEN row_idx' = row_idx + 1 /\ col_idx' = col_idx /\ pc' = "loop"
     ELSE IF col_idx < Len(range_cols(M + 1))
     THEN row_idx' = 1 /\ col_idx' = col_idx + 1 /\ pc' = "loop"
     ELSE row_idx' = row_idx /\ col_idx' = col_idx /\ pc' = "return"

\* control leaving calculate_option_values and present_value
leave_call ==
  pc = "return" /\ pc' = "done" /\ UNCHANGED <<col_idx, row_idx>>

\* one pass of the inner loop body, then the advance of the two iterators
LoopStep ==
  /\ pc = "loop"
  /\ LET j == range_cols(M + 1)[col_idx]
         i == range_rows(M + 1)[row_idx]
     IN  /\ partial' = SetAt(partial, i, j, node_value(partial, i, j))
         /\ writes' = SetAt(writes, i, j, At(writes, i, j) + 1)
         /\ helper' = IF cls = "EnhancedFASB" /\ forced_exercise(price_tree, i, j)
                      THEN SetAt(helper, i, j, One) ELSE helper
  /\ next_iteration
  /\ UNCHANGED <<config, movements, tr, ex_probs, price_tree, payoffs,
                 values, pv, err, iter, prepay>>

\* return np.triu(result), and present_value's option_values[0, 0]
ReturnValues ==
  /\ leave_call
  /\ values' = Triu(partial)
  /\ pv' = At(values', 0, 0)
  /\ UNCHANGED <<config, movements, tr, ex_probs, price_tree, payoffs,
                 helper, err, iter, partial, writes, prepay>>

\* the object is configured before the call and left alone during it
Configure ==
  /\ pc = "idle"
  /\ \/ Construct(Classes)
     \/ \E x \in TurnoverValues : SetTurnoverRate(x)
     \/ \E probs \in ProbValues(M) : SetExerciseProbabilities(probs)

NextLoop == Configure \/ EnterValuation \/ LoopStep \/ ReturnValues

SpecLoop == Init /\ [][NextLoop]_vars

\* A call that has started keeps executing: it is one sequential thread.
\* The condition is stated on the control variables, which every LoopStep
\* and every ReturnValues step moves as next_iteration and leave_call say.
FairSpecLoop ==
  SpecLoop /\ WF_<<pc, col_idx, row_idx>>(next_iteration \/ leave_call)

(***************************************************************************)
(* The same call with the rows of each column taken in any order: the loop *)
(* body of LoopStep is run for an arbitrary row of the current column that *)
(* has not been assigned yet, and the next column starts when all rows of  *)
(* the current one are assigned.                                           *)
(***************************************************************************)
AnyOrderStep ==
  /\ pc = "loop"
  /\ LET j == range_cols(M + 1)[col_idx]
     IN  \E k \in 1..Len(range_rows(M + 1)) :
           LET i == range_rows(M + 1)[k]
           IN  /\ At(writes, i, j) = 0
               /\ partial' = SetAt(partial, i, j, node_value(partial, i, j))
               /\ writes' = SetAt(writes, i, j, 1)
               /\ helper' = IF cls = "EnhancedFASB" /\ forced_exercise(price_tree, i, j)
                            THEN SetAt(helper, i, j, One) ELSE helper
               /\ IF \E k2 \in 1..Len(range_rows(M + 1)) :
                        At(writes', range_rows(M + 1)[k2], j) = 0
                  THEN col_idx' = col_idx /\ pc' = "loop"
                  ELSE IF col_idx < Len(range_cols(M + 1))
                  THEN col_idx' = col_idx + 1 /\ pc' = "loop"
                  ELSE col_idx' = col_idx /\ pc' = "return"
  /\ UNCHANGED <<config, movements, tr, ex_probs, price_tree, payoffs,
                 values, pv, err, iter, row_idx, prepay>>

NextAnyOrder == Configure \/ EnterValuation \/ AnyOrderStep \/ ReturnValues

SpecAnyOrder == Init /\ [][NextAnyOrder]_vars

(***************************************************************************)
(* banking_book/prepayments: DeterministicPrepaymentGenerator              *)
(***************************************************************************)
\* a cell of a frame column: <<kind, numerator, denominator>>
IntCell(n) == <<"int", n, 1>>

FloatCell(n, m) == <<"float", n, m>>

TextCell == <<"text", 0, 0>>

NoValue == <<>>

\* cast(pl.Int32): <<value>> with integers kept and floats truncated, no value
\* for text that is no number
cast_date(cell) ==
  IF cell[1] = "text" THEN NoValue ELSE <<cell[2] \div cell[3]>>

\* the nearest single-precision number of an integer 0 <= n <= 2^25
float32(n) ==
  IF n <= 16777216 \/ n % 2 = 0 THEN n
  ELSE IF (n - 1) % 4 = 0 THEN n - 1 ELSE n + 1

\* cast(pl.Float32) of an integer cell; text that is no number fails
cast_value(cell) ==
  IF cell[1] = "text" THEN NoValue ELSE <<float32(cell[2] \div cell[3])>>

DateCells == {IntCell(1), FloatCell(5, 2), TextCell}

ValueCells == {IntCell(5), IntCell(16777217), TextCell}

Columns(cells, n) == [1..n -> cells]

\* frames as sequences of columns of one height
FrameValues ==
  UNION {(Columns(DateCells, n) \X Columns(ValueCells, n))
           \cup {<<c>> : c \in Columns(DateCells, n)}
           \cup {<<c, c, c>> : c \in Columns(DateCells, n)} : n \in 0..MaxRows}

InfoValues == {<<1, 5>>, <<2, 5>>}

height(df) == Len(df[1])

\* casted.rows() of lines 56-61
casted_rows(df) ==
  [k \in 1..height(df) |-> <<cast_date(df[1][k])[1], cast_value(df[2][k])[1]>>]

cast_fails(df) ==
  \E k \in 1..height(df) :
    cast_date(df[1][k]) = NoValue \/ cast_value(df[2][k]) = NoValue

\* a failed cast raises ComputeError, turned into TypeError on line 63, or
\* InvalidOperationError, which passes the except clause, by the polars release
CastErrors == {"TypeError", "InvalidOperationError"}

add_prepayment(info) ==
  /\ Len(prepayment_registry) < MaxRegistry
  /\ prepayment_registry' = Append(prepayment_registry, info)
  /\ PREPAYMENT_COUNTER' = PREPAYMENT_COUNTER + 1
  /\ load_err' = "none"
  /\ UNCHANGED <<pricer, random>>

load_from_frame(df) ==
  /\ Len(prepayment_registry) + height(df) <= MaxRegistry
  /\ IF Len(df) # 2
     THEN load_err' = "AssertionError" /\ UNCHANGED prepayment_registry
     ELSE IF cast_fails(df)
     THEN load_err' \in CastErrors /\ UNCHANGED prepayment_registry
     ELSE /\ load_err' = "none"
          /\ prepayment_registry' = prepayment_registry \o casted_rows(df)
  /\ UNCHANGED <<PREPAYMENT_COUNTER, pricer, random>>

NextDeterministic ==
  \/ \E info \in InfoValues : add_prepayment(info)
  \/ \E df \in FrameValues : load_from_frame(df)

SpecDeterministic == Init /\ [][NextDeterministic]_vars

(***************************************************************************)
(* banking_book/prepayments: RandomPrepaymentGenerator                     *)
(***************************************************************************)
BoundsValues == {<<1, 2>>, <<1>>}

ShareValues == {Unset, R(0), Rat(1, 2), R(1), Rat(3, 2)}

\* Python truth value of an optional number: None and 0 are false
truthy(x) == x # Unset /\ x # Zero

\* x >= 0 and x <= 1 of lines 134 and 150
in_range(x) == Le(Zero, x) /\ Le(x, One)

\* the exception simple_random_prepayments ends with, if any (lines 111-151)
random_error(amount_bounds, prepayment_pct, prepayment_prob) ==
  IF Len(amount_bounds) # 2 THEN "AssertionError"
  ELSE IF (prepayment_pct = Unset) = (prepayment_prob = Unset) THEN "ValueError"
  ELSE IF truthy(prepayment_pct)
  THEN IF in_range(prepayment_pct) THEN "none" ELSE "AssertionError"
  ELSE IF prepayment_prob = Unset THEN "TypeError"
  ELSE IF in_range(prepayment_prob) THEN "none" ELSE "AssertionError"

\* int(max_time * prepayment_pct) for a share >= 0
sample_size(max_time, prepayment_pct) ==
  (max_time * prepayment_pct[1]) \div prepayment_pct[2]

installment_nos(max_time) == 1..max_time

\* np.random.choice(installment_nos, size, replace=False): any arrangement
choice(nos, size) ==
  {s \in [1..size -> nos] : \A a, b \in 1..size : a # b => s[a] # s[b]}

\* [item for item in installment_nos if np.random.rand() < prepayment_prob]:
\* rand() lies in [0, 1), so no item passes for 0 and every item for 1
RECURSIVE ascending(_)
ascending(S) ==
  IF S = {} THEN <<>>
  ELSE LET least == CHOOSE x \in S : \A y \in S : x <= y
       IN  <<least>> \o ascending(S \ {least})

bernoulli(nos, prepayment_prob) ==
  IF prepayment_prob = Zero THEN {<<>>}
  ELSE IF prepayment_prob = One THEN {ascending(nos)}
  ELSE {ascending(S) : S \in SUBSET nos}

\* np.random.uniform(low, high): the integers of [low, high)
uniform(low, high) == IF low < high THEN low..(high - 1) ELSE {low}

prepayment_occurences(max_time, prepayment_pct, prepayment_prob) ==
  IF truthy(prepayment_pct)
  THEN choice(installment_nos(max_time), sample_size(max_time, prepayment_pct))
  ELSE bernoulli(installment_nos(max_time), prepayment_prob)

simple_random_prepayments(max_time, amount_bounds, prepayment_pct, prepayment_prob) ==
  /\ Len(random_registry) + max_time <= MaxInstallments
  /\ random_args' = <<max_time, amount_bounds, prepayment_pct, prepayment_prob>>
  /\ random_err' = random_error(amount_bounds, prepayment_pct, prepayment_prob)
  /\ IF random_err' = "none"
     THEN \E occ \in prepayment_occurences(max_time, prepayment_pct, prepayment_prob) :
          \E amounts \in [1..Len(occ) -> uniform(amount_bounds[1], amount_bounds[2])] :
            random_registry' =
              random_registry \o [k \in 1..Len(occ) |-> <<occ[k], amounts[k]>>]
     ELSE UNCHANGED random_registry
  /\ UNCHANGED <<pricer, deterministic>>

NextRandom ==
  \E max_time \in 1..MaxInstallments, amount_bounds \in BoundsValues,
     prepayment_pct \in ShareValues, prepayment_prob \in ShareValues :
    simple_random_prepayments(max_time, amount_bounds, prepayment_pct, prepayment_prob)

SpecRandom == Init /\ [][NextRandom]_vars

(***************************************************************************)
(* Claims                                                                  *)
(***************************************************************************)
RECURSIVE RatPow(_, _)
RatPow(x, n) == IF n = 0 THEN One ELSE Mul(x, RatPow(x, n - 1))

RatMax(a, b) == IF Le(a, b) THEN b ELSE a

Nodes == (0..M) \X (0..M)

InOpenUnit(x) == Lt(Zero, x) /\ Lt(x, One)

InClosedUnit(x) == Le(Zero, x) /\ Le(x, One)

\* the grid S0 * u^(j-i) * d^i implied by the stored multipliers
ImpliedPrice(i, j) == Mul(S0, Mul(RatPow(u, j - i), RatPow(d, i)))

\* the stored multipliers are the ones __init__ derived from sigma
DerivedMovements == u = Exp(Mul(sigma, Sqrt(dt))) /\ Mul(u, d) = One

\* C1: every lattice object that exists (so every object present_value can
\* run on) has a risk-neutral probability with 0 < p < 1; parameters giving
\* a p outside (0, 1) are rejected.  (u = d, where p is undefined, is C2.)
C1_NoArbitrage == (constructed /\ u # d) => InOpenUnit(p)

\* C2: the object never holds an undefined (NaN or infinite) p: u == d is
\* detected and reported instead.
C2_NoDegenerateP == constructed => IsFinite(p)

\* C3: no grid is ever built from invalid inputs: whenever a price tree
\* exists, S0, K, sigma, T and the step count are positive, the vesting
\* period lies in [0, T], the exercise-probability matrix has the grid's
\* shape and entries in [0, 1], the turnover rate lies in [0, 1] and the
\* exercise multiplier is at least 1.
C3_ValidInputs ==
  price_tree # Unset =>
    /\ Lt(Zero, S0) /\ Lt(Zero, K) /\ Lt(Zero, sigma) /\ Lt(Zero, T) /\ M > 0
    /\ vesting_period # Unset => Le(Zero, vesting_period) /\ Le(vesting_period, T)
    /\ tr # Unset => InClosedUnit(tr)
    /\ km # Unset => Le(One, km)
    /\ ex_probs # Unset =>
         /\ Len(ex_probs) = M + 1
         /\ \A i, j \in 0..M : InClosedUnit(At(ex_probs, i, j))

\* C4: a BinomialESOP present_value call made while the exercise
\* probabilities or the turnover rate are missing ends in an error and
\* stores no value matrix and no present value; a present value exists
\* only when both have been supplied.
C4_PricingNeedsInputs ==
  /\ [](cls = "BinomialESOP" /\ pv # Unset => ex_probs # Unset /\ tr # Unset)
  /\ [][(PresentValueESOP /\ (ex_probs = Unset \/ tr = Unset))
          => (err' # "none" /\ pv' = Unset /\ values' = Unset)]_vars

\* a failed call: the turnover rate was supplied, the probabilities were not
C4_Witness ==
  /\ cls = "BinomialESOP" /\ err = "AttributeError"
  /\ tr # Unset /\ ex_probs = Unset /\ price_tree # Unset /\ pv = Unset

\* C5: u * d = 1 holds for every lattice object, after construction and
\* after any _overwrite_movements.
C5_Reciprocal == constructed => Mul(u, d) = One

\* C6: with the multipliers derived at construction, the price tree is an
\* (M+1) x (M+1) grid with S[i][j] = S0 * u^(j-i) * d^i at every valid node.
C6_PriceTreeFormula ==
  (price_tree # Unset /\ DerivedMovements) =>
    /\ Len(price_tree) = M + 1
    /\ \A i \in 0..M : Len(price_tree[i + 1]) = M + 1
    /\ \A i, j \in 0..M : i <= j => At(price_tree, i, j) = ImpliedPrice(i, j)

C6_Witness ==
  /\ price_tree # Unset /\ DerivedMovements /\ M >= 2 /\ u # One
  /\ At(price_tree, 1, 2) = S0

\* C7: when simulate_price_tree_iter is called with the lattice's own
\* multipliers and u * d = 1, its result equals simulate_price_tree's at
\* every valid node and both are zero below the diagonal.
C7_Recombination ==
  (iter_ret # Unset /\ iter_args = <<u, d>> /\ Mul(u, d) = One) =>
    \A i, j \in 0..M :
      IF i <= j
      THEN At(iter_ret, i, j) = At(simulate_price_tree, i, j)
      ELSE At(iter_ret, i, j) = Zero /\ At(simulate_price_tree, i, j) = Zero

\* C8: the price tree present_value builds is the grid implied by the
\* stored multipliers, overridden or not: S[i][j] = S0 * u^(j-i) * d^i.
C8_TreeFromStoredMovements ==
  price_tree # Unset =>
    \A i, j \in 0..M : i <= j => At(price_tree, i, j) = ImpliedPrice(i, j)

\* C9: the payoff matrix has the price tree's shape, max(S - K, 0) for a
\* call and max(K - S, 0) for a put at valid nodes, and 0 below the diagonal.
C9_Payoffs ==
  payoffs # Unset =>
    /\ Len(payoffs) = Len(price_tree)
    /\ \A i, j \in 0..M :
         At(payoffs, i, j) =
           IF i > j THEN Zero
           ELSE IF option_type = "call"
                THEN RatMax(Sub(At(price_tree, i, j), K), Zero)
                ELSE RatMax(Sub(K, At(price_tree, i, j)), Zero)

\* a put whose strike is positive, with nodes below the diagonal
C9_Witness ==
  /\ payoffs # Unset /\ option_type = "put" /\ Lt(Zero, K) /\ M >= 2
  /\ At(payoffs, 2, 1) = Zero /\ At(payoffs, 2, 2) # Zero

\* C10: under all three pricers and both exercise styles the last column of
\* the value matrix equals the last column of the payoff matrix.
C10_TerminalColumn ==
  values # Unset => \A i \in 0..M : At(values, i, M) = At(payoffs, i, M)

C10_Witness ==
  /\ values # Unset /\ cls = "EnhancedFASB" /\ exercise_type = "american"
  /\ M >= 2 /\ At(values, 1, M) # Zero /\ At(values, 0, M) # At(values, 1, M)

\* nodes i <= j < M, where a backward step is taken
InnerNodes == {n \in Nodes : n[1] <= n[2] /\ n[2] < M}

\* the continuation of node (i, j) read off the stored value matrix
Continuation(i, j) ==
  Mul(Exp(Neg(Mul(r, dt))),
      Add(Mul(p, At(values, i, j + 1)),
          Mul(Sub(One, p), At(values, i + 1, j + 1))))

\* C11: under the plain pricer every node i <= j < M holds the discounted
\* continuation c(i, j) of its two successors in the value matrix for a
\* European option and max(payoff, c(i, j)) for an American one; the
\* present value is the entry (0, 0); a one-step European price is
\* exp(-r*dt) * (p * payoff[0][1] + (1 - p) * payoff[1][1]).
C11_PlainRule ==
  (cls = "CoxRossRubinstein" /\ values # Unset) =>
    /\ \A n \in InnerNodes :
         At(values, n[1], n[2]) =
           IF exercise_type = "american"
           THEN RatMax(At(payoffs, n[1], n[2]), Continuation(n[1], n[2]))
           ELSE Continuation(n[1], n[2])
    /\ pv = At(values, 0, 0)
    /\ (M = 1 /\ exercise_type = "european") =>
         pv = Mul(Exp(Neg(Mul(r, dt))),
                  Add(Mul(p, At(payoffs, 0, 1)),
                      Mul(Sub(One, p), At(payoffs, 1, 1))))

\* an American put exercised early at the root of a three-step lattice
\* whose upper and lower successors differ
C11_Witness ==
  /\ cls = "CoxRossRubinstein" /\ values # Unset /\ M = 3
  /\ exercise_type = "american" /\ IsFinite(p) /\ InOpenUnit(p)
  /\ At(values, 0, 1) # At(values, 1, 1)
  /\ At(values, 0, 0) = At(payoffs, 0, 0)
  /\ Lt(Continuation(0, 0), At(values, 0, 0))

\* exercise_probabilities[i, j] + (1 - exercise_probabilities[i, j]) * tr
TotalProb(i, j) ==
  Add(At(ex_probs, i, j), Mul(Sub(One, At(ex_probs, i, j)), tr))

\* w * payoff + (1 - w) * continuation on the stored matrices
Blended(w, i, j) ==
  Add(Mul(w, At(payoffs, i, j)), Mul(Sub(One, w), Continuation(i, j)))

\* C12: under BinomialESOP every node i <= j < M holds, with totalProb =
\* exProb + (1 - exProb) * turnover, blended = totalProb * payoff +
\* (1 - totalProb) * continuation on the vesting-masked payoff: blended
\* itself for a European option, max(payoff, blended) for an American one.
C12_VestingTurnoverRule ==
  (cls = "BinomialESOP" /\ values # Unset) =>
    \A n \in InnerNodes :
      At(values, n[1], n[2]) =
        IF exercise_type = "american"
        THEN RatMax(At(payoffs, n[1], n[2]),
                    Blended(TotalProb(n[1], n[2]), n[1], n[2]))
        ELSE Blended(TotalProb(n[1], n[2]), n[1], n[2])

\* a vested in-the-money node whose two hazards are both positive and
\* whose blended value lies strictly between payoff and continuation
C12_Witness ==
  /\ cls = "BinomialESOP" /\ values # Unset /\ M = 3
  /\ exercise_type = "european" /\ InOpenUnit(p)
  /\ tr = Rat(1, 2) /\ At(ex_probs, 0, 2) = Rat(1, 2)
  /\ ~vesting_mask(0, 2) /\ Lt(Zero, At(payoffs, 0, 2))
  /\ At(values, 0, 2) # At(payoffs, 0, 2)
  /\ At(values, 0, 2) # Continuation(0, 2)

\* price >= multiplier * K and j * dt > vesting period, on the stored tree
Forced(i, j) ==
  /\ Le(Mul(km, K), At(price_tree, i, j))
  /\ Lt(vesting_period, Mul(R(j), dt))

Weight(i, j) ==
  IF cls = "BinomialESOP" THEN TotalProb(i, j) ELSE Mul(tr, dt)

\* valid nodes with j * dt <= vesting period
MaskedNodes ==
  {n \in Nodes : n[1] <= n[2] /\ Le(Mul(R(n[2]), dt), vesting_period)}

C15_VestingValuesZero ==
  (cls \in {"BinomialESOP", "EnhancedFASB"} /\ values # Unset) =>
    \A n \in MaskedNodes : At(values, n[1], n[2]) = Zero

\* C16: under BinomialESOP and EnhancedFASB, both option kinds and both
\* exercise styles, a vesting period of at least T makes every entry of the
\* payoff matrix zero, every entry of the value matrix zero and the present
\* value 0.
C16_FullVestingZero ==
  (cls \in {"BinomialESOP", "EnhancedFASB"} /\ values # Unset
     /\ Le(T, vesting_period)) =>
    /\ \A n \in Nodes : At(payoffs, n[1], n[2]) = Zero
    /\ \A n \in Nodes : At(values, n[1], n[2]) = Zero
    /\ pv = Zero

\* turnover rate 0 and an all-zero exercise-probability matrix
NoAttrition ==
  /\ tr = Zero
  /\ \A i, j \in 0..(Len(ex_probs) - 1) : At(ex_probs, i, j) = Zero

\* what the plain pricer computes on the same configuration
PlainValues == crr_calculate_option_values(calculate_payoffs(price_tree))

\* the vesting mask zeroes no positive payoff
MaskIdle ==
  \A n \in MaskedNodes : At(calculate_payoffs(price_tree), n[1], n[2]) = Zero

\* C17: for identical lattice configuration, option kind and exercise
\* style, BinomialESOP with turnover rate 0 and all-zero exercise
\* probabilities holds the plain pricer's value at every node of the value
\* matrix, and returns the same present value.
C17_ReducesToPlain ==
  (cls = "BinomialESOP" /\ values # Unset /\ NoAttrition) =>
    values = PlainValues /\ pv = At(PlainValues, 0, 0)

\* C17 (amended): with turnover rate 0 and all-zero exercise probabilities
\* BinomialESOP holds at every node the value the plain rule gives on the
\* vesting-masked payoff matrix; it equals the plain pricer's value
\* whenever the vesting mask zeroes no positive payoff.
C17_ReducesToPlainOnMaskedPayoffs ==
  (cls = "BinomialESOP" /\ values # Unset /\ NoAttrition) =>
    /\ values = crr_calculate_option_values(payoffs)
    /\ pv = At(crr_calculate_option_values(payoffs), 0, 0)
    /\ MaskIdle => values = PlainValues

\* an American put whose root payoff is masked: the plain pricer exercises
\* at the root, the ESOP pricer cannot
C17_Witness ==
  /\ cls = "BinomialESOP" /\ values # Unset /\ NoAttrition
  /\ exercise_type = "american" /\ option_type = "put" /\ M >= 2
  /\ InOpenUnit(p) /\ Lt(vesting_period, T)
  /\ At(PlainValues, 0, 0) = At(calculate_payoffs(price_tree), 0, 0)
  /\ Lt(Zero, pv) /\ Lt(pv, At(PlainValues, 0, 0))

\* every price of the tree lies below multiplier * K
BelowBarrier == \A n \in Nodes : Lt(At(price_tree, n[1], n[2]), Mul(km, K))

EuropeanNode(result, i, j) ==
  IF cls = "CoxRossRubinstein" THEN discounted_weighted_payoff(result, i, j)
  ELSE IF cls = "BinomialESOP" THEN esop_option_value(result, payoffs, i, j)
  ELSE fasb_option_value(result, payoffs, price_tree, i, j)

RECURSIVE EuropeanInduction(_, _)
EuropeanInduction(result, j) ==
  IF j < 0 THEN result
  ELSE EuropeanInduction(
         write_column(result, j,
                      [i \in 1..(Len(result) - 1) |-> EuropeanNode(result, i - 1, j)]),
         j - 1)

\* the value matrix of the pricer that differs in exercise style only
EuropeanValues == Triu(EuropeanInduction(terminal_column(payoffs), M - 1))

ValidNodes == {n \in Nodes : n[1] <= n[2]}

\* C19: for identical configuration and payoffs the American value is at
\* least the European value at every valid node, and so is the present
\* value, under the plain rule and both ESOP rules.
C19_AmericanDominates ==
  (values # Unset /\ exercise_type = "american") =>
    /\ \A n \in ValidNodes :
         Le(At(EuropeanValues, n[1], n[2]), At(values, n[1], n[2]))
    /\ Le(At(EuropeanValues, 0, 0), pv)

\* the column the loops are working on
CurrentColumn == range_cols(M + 1)[col_idx]

\* C20: in every run of calculate_option_values, of all three classes,
\* the columns are processed in the order M, M-1, ..., 0; every valid node
\* of the columns after the current one already holds a value that no
\* later step changes; no node is assigned twice and every valid node has
\* been assigned exactly once when the run ends; the run ends, right after
\* column 0.
C20_BackwardOrder ==
  /\ [](pc = "loop" =>
          \A n \in ValidNodes : n[2] > CurrentColumn => At(writes, n[1], n[2]) = 1)
  /\ [](writes # Unset => \A n \in Nodes : At(writes, n[1], n[2]) <= 1)
  /\ [](pc = "done" =>
          \A n \in ValidNodes :
            /\ At(writes, n[1], n[2]) = 1
            /\ At(values, n[1], n[2]) = At(partial, n[1], n[2]))
  /\ [][(pc = "idle" /\ pc' = "loop") =>
          /\ CurrentColumn' = M - 1
          /\ \A i \in 0..M : At(writes', i, M) = 1]_vars
  /\ [][(pc = "loop" /\ pc' = "loop") =>
          (CurrentColumn' = CurrentColumn \/ CurrentColumn' = CurrentColumn - 1)]_vars
  /\ [][(pc = "loop" /\ pc' = "return") => CurrentColumn = 0]_vars
  /\ [][writes # Unset =>
          \A n \in Nodes :
            At(writes, n[1], n[2]) >= 1 =>
              At(partial', n[1], n[2]) = At(partial, n[1], n[2])]_vars
  /\ (pc = "loop") ~> (pc = "done")

\* halfway through column 1 of a three-step EnhancedFASB lattice: column 2
\* is complete and non-zero, node (0, 1) is written, node (1, 1) is not
C20_Witness ==
  /\ pc = "loop" /\ cls = "EnhancedFASB" /\ M = 3
  /\ CurrentColumn = 1 /\ row_idx = 2
  /\ At(writes, 0, 1) = 1 /\ At(writes, 1, 1) = 0
  /\ Lt(Zero, At(partial, 1, 2)) /\ Lt(Zero, At(partial, 0, 1))

\* the row the loops are working on
CurrentRow == range_rows(M + 1)[row_idx]

\* C21: during backward induction the loop for column j visits only rows
\* 0..j, so that the pass for node (i, j) reads value entries (i, j+1) and
\* (i+1, j+1) and column-j inputs at (i, j) of the valid region only, and
\* no entry with i > j is ever computed.
C21_ValidRegionOnly ==
  /\ pc = "loop" => CurrentRow <= CurrentColumn
  /\ writes # Unset =>
       \A n \in Nodes : n[1] > n[2] => At(writes, n[1], n[2]) = 0

\* the matrix the sequential loops of the priced class leave behind
SequentialResult ==
  IF cls = "CoxRossRubinstein"
  THEN crr_induction(terminal_column(payoffs), payoffs, M - 1)
  ELSE IF cls = "BinomialESOP"
  THEN esop_induction(terminal_column(payoffs), payoffs, M - 1)
  ELSE fasb_induction(terminal_column(payoffs), payoffs, price_tree, M - 1)

\* C22: whatever the order in which the rows of each column are evaluated,
\* every entry holds, from the moment it is assigned, the value the
\* sequential row order 0, 1, 2, ... gives it, and the returned value
\* matrix, the present value and the helper flags are the sequential ones.
C22_RowOrderIrrelevant ==
  /\ writes # Unset =>
       \A n \in Nodes :
         At(writes, n[1], n[2]) = 1 =>
           At(partial, n[1], n[2]) = At(SequentialResult, n[1], n[2])
  /\ pc = "done" =>
       /\ values = Triu(SequentialResult)
       /\ pv = At(SequentialResult, 0, 0)
       /\ cls = "EnhancedFASB" => helper = fasb_helper(price_tree)

\* column 1 of a three-step lattice taken bottom-up: row 2, then row 1,
\* with row 0 still to come
C22_Witness ==
  /\ pc = "loop" /\ M = 3 /\ CurrentColumn = 1
  /\ At(writes, 2, 1) = 1 /\ At(writes, 1, 1) = 1 /\ At(writes, 0, 1) = 0
  /\ Lt(Zero, At(partial, 1, 1)) /\ At(partial, 1, 1) # At(partial, 1, 2)

\* C23: calculate_option_values of every class leaves the payoff matrix it
\* receives and the price tree unchanged: after present_value the exposed
\* payoff matrix is still the output of calculate_payoffs on the exposed
\* price tree, itself the output of simulate_price_tree.
C23_PayoffsNotMutated ==
  payoffs # Unset =>
    /\ price_tree = simulate_price_tree
    /\ payoffs = calculate_payoffs(price_tree)

\* C24: simulate_price_tree_iter computes any multiplier that is not
\* passed: called with u = None and d = None it returns the price tree of
\* simulate_price_tree; called with d = None only it keeps the supplied u
\* and uses d = exp(-sigma * sqrt(dt)).
C24_IterDefaults ==
  (iter_args # Unset /\ iter_args[2] = Unset) =>
    /\ err = "none" /\ iter_ret # Unset
    /\ iter_args[1] = Unset =>
         \A n \in ValidNodes :
           At(iter_ret, n[1], n[2]) = At(simulate_price_tree, n[1], n[2])
    /\ iter_args[1] # Unset =>
         /\ At(iter_ret, 0, 1) = Mul(S0, iter_args[1])
         /\ At(iter_ret, 1, 1) = Mul(S0, Exp(Neg(Mul(sigma, Sqrt(dt)))))

\* C25: the value matrix returned by each of the three pricers is upper
\* triangular: every entry below the diagonal (i > j) is exactly 0, whatever
\* the induction loop wrote there before the return.
C25_UpperTriangular ==
  pc = "done" =>
    \A n \in Nodes : n[1] > n[2] => At(values, n[1], n[2]) = Zero

\* a finished call whose loop left a non-zero entry below the diagonal
C25_Witness ==
  /\ pc = "done"
  /\ M >= 2
  /\ writes # Unset
  /\ At(writes, 1, 0) >= 1
  /\ IsFinite(At(partial, 1, 0))
  /\ At(partial, 1, 0) # Zero
  /\ At(values, 1, 0) = Zero

\* the array with every entry below the diagonal replaced by x
Scrubbed(mat, x) ==
  Mat(Len(mat), LAMBDA i, j : IF i <= j THEN At(mat, i, j) ELSE x)

Fillers == {NaN, R(7), Neg(R(5))}

\* C26: the value of every valid node (i <= j < M) is computed from
\* valid-region entries only: the number the loop stored there is the number
\* the rule gives when every entry below the diagonal is replaced by anything
\* else, so what the loop wrote at nodes with i > j influences no valid node
\* and not the present value.
C26_ValidNodesReadValidRegion ==
  /\ writes # Unset =>
       \A n \in InnerNodes : \A x \in Fillers :
         At(writes, n[1], n[2]) >= 1 =>
           At(partial, n[1], n[2]) =
             node_value(Scrubbed(partial, x), n[1], n[2])
  /\ pc = "done" =>
       /\ \A n \in ValidNodes : At(values, n[1], n[2]) = At(partial, n[1], n[2])
       /\ \A x \in Fillers : pv = node_value(Scrubbed(partial, x), 0, 0)

\* a valid node is computed while the loop has left a non-zero number below
\* the diagonal, in the column the node reads and in its own
C26_Witness ==
  /\ pc = "loop"
  /\ M = 3
  /\ At(writes, 0, 0) = 0
  /\ At(writes, 1, 1) >= 1
  /\ At(writes, 2, 1) >= 1
  /\ IsFinite(At(partial, 2, 1))
  /\ At(partial, 2, 1) # Zero
  /\ IsFinite(At(partial, 1, 1))
  /\ At(partial, 1, 1) # Zero

\* the weights of the pricer's rule lie in [0, 1]: the exercise probabilities
\* and the turnover rate of BinomialESOP, turnover rate * dt of EnhancedFASB
WeightsInUnit ==
  IF cls = "BinomialESOP"
  THEN /\ InClosedUnit(tr)
       /\ \A a \in 1..Len(ex_probs) : \A b \in 1..Len(ex_probs[a]) :
            InClosedUnit(ex_probs[a][b])
  ELSE IF cls = "EnhancedFASB" THEN InClosedUnit(Mul(tr, dt))
  ELSE TRUE

\* C27: when 0 <= p <= 1, r is finite and the rule weights lie in [0, 1],
\* every entry of the returned value matrix is >= 0 under all three pricers,
\* and under American style every valid node is worth at least its payoff
\* (the vesting-masked payoff for the ESOP variants).
C27_NonNegativeAndAmericanFloor ==
  (pc = "done" /\ InClosedUnit(p) /\ IsFinite(r) /\ WeightsInUnit) =>
    /\ \A n \in Nodes : Le(Zero, At(values, n[1], n[2]))
    /\ exercise_type = "american" =>
         \A n \in ValidNodes : Le(At(payoffs, n[1], n[2]), At(values, n[1], n[2]))

\* an American valuation with weights strictly inside the unit interval, a
\* node worth more than its payoff and a node held at its positive payoff
C27_Witness ==
  /\ pc = "done"
  /\ cls = "BinomialESOP"
  /\ exercise_type = "american"
  /\ InOpenUnit(p)
  /\ InOpenUnit(tr)
  /\ WeightsInUnit
  /\ \E n \in InnerNodes :
       Lt(At(payoffs, n[1], n[2]), At(values, n[1], n[2]))
  /\ \E n \in InnerNodes :
       /\ Lt(Zero, At(payoffs, n[1], n[2]))
       /\ At(payoffs, n[1], n[2]) = At(values, n[1], n[2])

\* C28: after an EnhancedFASB valuation helper[i][j] = 1 if and only if
\* j < M, price_tree[i][j] >= km * K and j * dt > vesting_period; for K > 0
\* and km >= 1 a flagged node lies in the valid region (i <= j), is not a
\* vesting-masked node, and its value equals its unmasked payoff.
C28_HelperFlags ==
  (pc = "done" /\ cls = "EnhancedFASB") =>
    /\ \A n \in Nodes :
         At(helper, n[1], n[2]) = One <=>
           /\ n[2] < M
           /\ Le(Mul(km, K), At(price_tree, n[1], n[2]))
           /\ Lt(vesting_period, Mul(R(n[2]), dt))
    /\ (Lt(Zero, K) /\ Le(One, km)) =>
         \A n \in Nodes :
           At(helper, n[1], n[2]) = One =>
             /\ n[1] <= n[2]
             /\ ~vesting_mask(n[1], n[2])
             /\ At(values, n[1], n[2]) =
                  At(calculate_payoffs(price_tree), n[1], n[2])

\* C29: after any sequence of add_prepayment and load_from_frame calls
\* PREPAYMENT_COUNTER equals the number of entries of prepayment_registry,
\* and a load_from_frame that fails (a frame without exactly two columns, or
\* a failed cast) leaves the registry and the counter unchanged.
C29_CounterMatchesRegistry ==
  /\ [](PREPAYMENT_COUNTER = Len(prepayment_registry))
  /\ [][load_err' # "none" =>
          UNCHANGED <<prepayment_registry, PREPAYMENT_COUNTER>>]_vars

\* the entries a call appended to the registry
Appended == SubSeq(random_registry', Len(random_registry) + 1, Len(random_registry'))

\* C30: simple_random_prepayments raises ValueError and leaves the registry
\* unchanged unless exactly one of prepayment_pct and prepayment_prob is
\* given; for every prepayment_pct in [0; 1] with prepayment_prob not given
\* it completes and appends exactly int(max_time * prepayment_pct)
\* prepayments, with pairwise distinct installment numbers in 1..max_time.
C30_RandomPrepayments ==
  [][random_args' # Unset =>
       LET max_time == random_args'[1]
           amount_bounds == random_args'[2]
           prepayment_pct == random_args'[3]
           prepayment_prob == random_args'[4]
       IN  Len(amount_bounds) = 2 =>
             /\ (prepayment_pct = Unset) = (prepayment_prob = Unset) =>
                  random_err' = "ValueError" /\ UNCHANGED random_registry
             /\ (prepayment_prob = Unset /\ prepayment_pct # Unset
                   /\ InClosedUnit(prepayment_pct)) =>
                  /\ random_err' = "none"
                  /\ Len(Appended) =
                       (max_time * prepayment_pct[1]) \div prepayment_pct[2]
                  /\ \A a \in 1..Len(Appended) :
                       /\ Appended[a][1] \in 1..max_time
                       /\ \A b \in 1..Len(Appended) :
                            a # b => Appended[a][1] # Appended[b][1]]_vars

====
